---------------------------- MODULE Spec2Model ----------------------------
(***************************************************************************)
(* A model of the real-time chat gateway (src/src/gateways/chat.gateway.ts) *)
(* together with the parts of socket.io and of MessageService it relies on. *)
(*                                                                         *)
(* Strings model JavaScript strings; the empty string "" models a falsy    *)
(* value (undefined, null or ""), which is how the gateway tests           *)
(* client.userId, the handshake token and data.roomId.                     *)
(***************************************************************************)
EXTENDS Naturals, Integers, Sequences, FiniteSets, TLC

(***************************************************************************)
(* Bounds of the model.                                                    *)
(***************************************************************************)
MaxConns == 2

MaxSockets == 3

MaxMessages == 2

MaxInflight == 1

MaxPending == 2

(***************************************************************************)
(* Domains the inputs are drawn from.                                      *)
(***************************************************************************)
SocketIds == <<"s1", "s2", "s3", "s4", "s5">>

\* the sockets there are; MaxConns of them connect in the specifications
\* that explore every handler, all of them in SpecReply
ConnIds == {SocketIds[i] : i \in 1..MaxSockets}

Users == {"u1", "u2"}

ClientRooms == {"general", "r1"}

Contents == {"hi"}

(***************************************************************************)
(* The identity verifier of the repository: a token is accepted when it is *)
(* a JWT signed by AuthService for an existing user whose session is      *)
(* current, and it yields that user's id (JwtPayload.sub).  "" is          *)
(* "rejected".                                                             *)
(***************************************************************************)
JwtSign(u) == "jwt:" \o u

JwtVerify(token) ==
  IF \E u \in Users : token = JwtSign(u)
  THEN CHOOSE u \in Users : token = JwtSign(u)
  ELSE ""

\* The handshakes tried: no token, no userId, u1 with its own JWT, and u2
\* claimed with a token no one signed.
Handshakes ==
  { [token |-> "", userId |-> "u1"],
    [token |-> JwtSign("u1"), userId |-> ""],
    [token |-> JwtSign("u1"), userId |-> "u1"],
    [token |-> "forged", userId |-> "u2"] }

NoHandshake == [token |-> "", userId |-> ""]

(***************************************************************************)
(* CreateMessageDto as the client sends it: authorId is whatever the       *)
(* client put there ("" when absent), parentMessageId 0 when absent.       *)
(***************************************************************************)
Dtos == [content : Contents, authorId : {""} \cup Users, parentMessageId : 0..MaxMessages]

NoDto == [content |-> "", authorId |-> "", parentMessageId |-> 0]

\* two messages that can be told apart, for the order they are handled in
NumberedDtos == {[content |-> t, authorId |-> "", parentMessageId |-> 0] : t \in {"m1", "m2"}}

\* what the hub was handed: the event name, the socket, and the payload
Handled(op, c, roomId, isTyping, dto) ==
  [op |-> op, conn |-> c, roomId |-> roomId, isTyping |-> isTyping, dto |-> dto]

VARIABLES
  status,        \* socket id -> "new" | "open" | "closed" (socket.io's socket.connected)
  handshake,     \* socket id -> client.handshake (token, auth.userId)
  userId,        \* socket id -> client.userId, "" when undefined
  joined,        \* socket id -> the socket.io rooms of the socket
  userSessions,  \* Map userId -> Set of socket ids (a function on the Map's keys)
  socketToUser,  \* Map socket id -> userId
  typingUsers,   \* Map roomId -> Set of userIds
  messages,      \* the message repository: id (index) -> row
  inflight,      \* handleMessage invocations suspended at an await, in arrival order
  emits,         \* the events the last step emitted, in order
  calls,         \* the MessageService calls the last step started
  last,          \* the event or resumption the last step handled
  balance        \* history: userOnline minus userOffline emitted so far, per userId

vars == <<status, handshake, userId, joined, userSessions, socketToUser,
          typingUsers, messages, inflight, emits, calls, last, balance>>

(***************************************************************************)
(* socket.io delivery.                                                     *)
(***************************************************************************)
Live(st) == {c \in ConnIds : st[c] = "open"}

InRoom(jn, r) == {c \in ConnIds : r \in jn[c]}

Event(ev, to, u, r, m, us, txt) ==
  [event |-> ev, to |-> to, userId |-> u, roomId |-> r, messageId |-> m,
   users |-> us, message |-> txt]

\* a broadcast scoped to the default room instead of the namespace
ServerEmitToRoom(st, ev, u, m) ==
  Event(ev, InRoom(joined, "general") \cap Live(st), u, "", m, {}, "")

\* this.server.emit(ev, ...): every socket connected to the namespace
ServerEmit(st, ev, u, m) == Event(ev, Live(st), u, "", m, {}, "")

\* this.server.to(room).emit(ev, ...): every socket in the room
ServerToEmit(jn, room, ev, u, m) == Event(ev, InRoom(jn, room), u, room, m, {}, "")

\* an emit to the room through the server object: the client is not left out
ClientToEmitToRoom(jn, c, room, ev, u) == Event(ev, InRoom(jn, room), u, room, 0, {}, "")

\* client.to(room).emit(ev, ...): every socket in the room but the client
ClientToEmit(jn, c, room, ev, u) == Event(ev, InRoom(jn, room) \ {c}, u, room, 0, {}, "")

\* an emit on the server object where the client's was meant
ClientEmitToAll(st, c, ev, us, txt) == Event(ev, Live(st), "", "", 0, us, txt)

\* client.emit(ev, ...): the client alone; dropped once the socket is disconnected
ClientEmit(st, c, ev, us, txt) == Event(ev, {c} \cap Live(st), "", "", 0, us, txt)

(***************************************************************************)
(* Map helpers.                                                            *)
(***************************************************************************)
MapSet(m, k, v) == [x \in DOMAIN m \cup {k} |-> IF x = k THEN v ELSE m[x]]

MapDelete(m, k) == [x \in DOMAIN m \ {k} |-> m[x]]

EmptyMap == [x \in {} |-> {}]

RECURSIVE SetToSeq(_)
SetToSeq(S) ==
  IF S = {} THEN <<>>
  ELSE LET x == CHOOSE y \in S : TRUE IN <<x>> \o SetToSeq(S \ {x})

(***************************************************************************)
(* ChatGateway helper methods.                                             *)
(***************************************************************************)
associateUserWithSocket(us, stu, u, s) ==
  LET base == IF u \in DOMAIN us THEN us ELSE MapSet(us, u, {})
  IN  [userSessions |-> [base EXCEPT ![u] = @ \cup {s}],
       socketToUser |-> MapSet(stu, s, u)]

\* forgets the user's other sockets
removeUserSocketDropsUser(us, u, s) ==
  IF u \in DOMAIN us THEN MapDelete(us, u) ELSE us

\* leaves the user's key behind with an empty set
removeUserSocketKeepsEmptySet(us, u, s) ==
  IF u \in DOMAIN us THEN [us EXCEPT ![u] = @ \ {s}] ELSE us

\* takes another socket of the user away when the given one is not there
removeUserSocketTakesAny(us, u, s) ==
  IF u \in DOMAIN us
  THEN LET x == IF s \in us[u] THEN s ELSE CHOOSE y \in us[u] : TRUE
           rest == us[u] \ {x}
       IN  IF rest = {} THEN MapDelete(us, u) ELSE [us EXCEPT ![u] = rest]
  ELSE us

removeUserSocket(us, u, s) ==
  IF u \in DOMAIN us
  THEN LET rest == us[u] \ {s}
       IN  IF rest = {} THEN MapDelete(us, u) ELSE [us EXCEPT ![u] = rest]
  ELSE us

\* notifyUser: one server.to(socketId).emit per socket id registered to the user
notifyUser(us, jn, u, ev, from, m) ==
  IF u \in DOMAIN us
  THEN LET ids == SetToSeq(us[u])
       IN  [i \in 1..Len(ids) |-> ServerToEmit(jn, ids[i], ev, from, m)]
  ELSE <<>>

(***************************************************************************)
(* Init: the gateway after construction, no socket connected yet, and an   *)
(* empty message table.                                                    *)
(***************************************************************************)
Init ==
  /\ status = [c \in ConnIds |-> "new"]
  /\ handshake = [c \in ConnIds |-> NoHandshake]
  /\ userId = [c \in ConnIds |-> ""]
  /\ joined = [c \in ConnIds |-> {}]
  /\ userSessions = EmptyMap
  /\ socketToUser = EmptyMap
  /\ typingUsers = EmptyMap
  /\ messages = <<>>
  /\ inflight = <<>>
  /\ emits = <<>>
  /\ calls = <<>>
  /\ last = Handled("init", "", "", FALSE, NoDto)
  /\ balance = [u \in Users |-> 0]

\* registers whoever names a userId, token or not
handleConnectionTrustsUserId(c, hs) ==
  LET st == [status EXCEPT ![c] = "open"]
      u == hs.userId
      reg == associateUserWithSocket(userSessions, socketToUser, u, c)
  IN
  /\ status' = st
  /\ handshake' = [handshake EXCEPT ![c] = hs]
  /\ IF u # ""
     THEN /\ userSessions' = reg.userSessions
          /\ socketToUser' = reg.socketToUser
          /\ userId' = [userId EXCEPT ![c] = u]
          /\ joined' = [joined EXCEPT ![c] = {c, "user:" \o u}]
          /\ emits' = <<ServerEmit(st, "userOnline", u, 0)>>
          /\ balance' = [balance EXCEPT ![u] = @ + 1]
     ELSE /\ joined' = [joined EXCEPT ![c] = {c}]
          /\ emits' = <<>>
          /\ UNCHANGED <<userSessions, socketToUser, userId, balance>>
  /\ calls' = <<>>
  /\ UNCHANGED <<typingUsers, messages, inflight>>

(***************************************************************************)
(* handleConnection.  socket.io has added the socket to the namespace and  *)
(* to the room named by its own id before the gateway is told.             *)
(***************************************************************************)
handleConnection(c, hs) ==
  LET st == [status EXCEPT ![c] = "open"]
      token == hs.token
      u == hs.userId
      reg == associateUserWithSocket(userSessions, socketToUser, u, c)
  IN
  /\ status' = st
  /\ handshake' = [handshake EXCEPT ![c] = hs]
  /\ IF token # "" /\ u # ""
     THEN /\ userSessions' = reg.userSessions
          /\ socketToUser' = reg.socketToUser
          /\ userId' = [userId EXCEPT ![c] = u]
          /\ joined' = [joined EXCEPT ![c] = {c, "user:" \o u}]
          /\ emits' = <<ServerEmit(st, "userOnline", u, 0)>>
          /\ balance' = [balance EXCEPT ![u] = @ + 1]
     ELSE /\ joined' = [joined EXCEPT ![c] = {c}]
          /\ emits' = <<>>
          /\ UNCHANGED <<userSessions, socketToUser, userId, balance>>
  /\ calls' = <<>>
  /\ UNCHANGED <<typingUsers, messages, inflight>>

\* socket.io hands out a fresh id per connection: ids are taken in order
Connect(i, hs) ==
  /\ status[SocketIds[i]] = "new"
  /\ \A j \in 1..(i - 1) : status[SocketIds[j]] # "new"
  /\ handleConnection(SocketIds[i], hs)
  /\ last' = Handled("connection", SocketIds[i], "", FALSE, NoDto)

(***************************************************************************)
(* handleDisconnect.  socket.io has already taken the socket out of its    *)
(* rooms and out of the namespace when the gateway is told.                *)
(***************************************************************************)
\* a cleanup that stops after the first room the user is typing in
handleDisconnectClearsOneRoom(c) ==
  LET st == [status EXCEPT ![c] = "closed"]
      jn == [joined EXCEPT ![c] = {}]
      u == userId[c]
      us == removeUserSocket(userSessions, u, c)
      offline == u \notin DOMAIN us \/ us[u] = {}
      all == SetToSeq({r \in DOMAIN typingUsers : u \in typingUsers[r]})
      rooms == IF all = <<>> THEN <<>> ELSE <<all[1]>>
  IN
  /\ status' = st
  /\ joined' = jn
  /\ IF u # ""
     THEN /\ userSessions' = us
          /\ typingUsers' = [r \in DOMAIN typingUsers |->
                               IF Len(rooms) = 1 /\ r = rooms[1]
                               THEN typingUsers[r] \ {u} ELSE typingUsers[r]]
          /\ emits' = (IF offline THEN <<ServerEmit(st, "userOffline", u, 0)>> ELSE <<>>)
                      \o [i \in 1..Len(rooms) |->
                            ServerToEmit(jn, rooms[i], "userStoppedTyping", u, 0)]
          /\ balance' = IF offline THEN [balance EXCEPT ![u] = @ - 1] ELSE balance
     ELSE /\ emits' = <<>>
          /\ UNCHANGED <<userSessions, typingUsers, balance>>
  /\ socketToUser' = MapDelete(socketToUser, c)
  /\ calls' = <<>>
  /\ UNCHANGED <<handshake, userId, messages, inflight>>

\* a teardown that does not test client.userId
handleDisconnectUnguarded(c) ==
  LET st == [status EXCEPT ![c] = "closed"]
      jn == [joined EXCEPT ![c] = {}]
      u == userId[c]
      us == removeUserSocket(userSessions, u, c)
      offline == u \notin DOMAIN us \/ us[u] = {}
      rooms == SetToSeq({r \in DOMAIN typingUsers : u \in typingUsers[r]})
  IN
  /\ status' = st
  /\ joined' = jn
  /\ userSessions' = us
  /\ typingUsers' = [r \in DOMAIN typingUsers |-> typingUsers[r] \ {u}]
  /\ emits' = (IF offline THEN <<ServerEmit(st, "userOffline", u, 0)>> ELSE <<>>)
              \o [i \in 1..Len(rooms) |->
                    ServerToEmit(jn, rooms[i], "userStoppedTyping", u, 0)]
  /\ balance' = IF offline /\ u \in Users THEN [balance EXCEPT ![u] = @ - 1] ELSE balance
  /\ socketToUser' = MapDelete(socketToUser, c)
  /\ calls' = <<>>
  /\ UNCHANGED <<handshake, userId, messages, inflight>>

handleDisconnect(c) ==
  LET st == [status EXCEPT ![c] = "closed"]
      jn == [joined EXCEPT ![c] = {}]
      u == userId[c]
      us == removeUserSocket(userSessions, u, c)
      offline == u \notin DOMAIN us \/ us[u] = {}
      rooms == SetToSeq({r \in DOMAIN typingUsers : u \in typingUsers[r]})
  IN
  /\ status' = st
  /\ joined' = jn
  /\ IF u # ""
     THEN /\ userSessions' = us
          /\ typingUsers' = [r \in DOMAIN typingUsers |-> typingUsers[r] \ {u}]
          /\ emits' = (IF offline THEN <<ServerEmit(st, "userOffline", u, 0)>> ELSE <<>>)
                      \o [i \in 1..Len(rooms) |->
                            ServerToEmit(jn, rooms[i], "userStoppedTyping", u, 0)]
          /\ balance' = IF offline THEN [balance EXCEPT ![u] = @ - 1] ELSE balance
     ELSE /\ emits' = <<>>
          /\ UNCHANGED <<userSessions, typingUsers, balance>>
  /\ socketToUser' = MapDelete(socketToUser, c)
  /\ calls' = <<>>
  /\ UNCHANGED <<handshake, userId, messages, inflight>>

Disconnect(c) ==
  /\ status[c] = "open"
  /\ handleDisconnect(c)
  /\ last' = Handled("disconnect", c, "", FALSE, NoDto)

\* handleDisconnect run once more on the socket it has just torn down
DisconnectAgain(c) ==
  /\ status[c] = "closed"
  /\ last.op = "disconnect"
  /\ last.conn = c
  /\ handleDisconnect(c)
  /\ last' = Handled("disconnect again", c, "", FALSE, NoDto)

(***************************************************************************)
(* handleJoinRoom / handleLeaveRoom                                        *)
(***************************************************************************)
\* joins whoever asks
handleJoinRoomUnguarded(c, roomId) ==
  LET jn == [joined EXCEPT ![c] = @ \cup {roomId}]
  IN
  /\ joined' = jn
  /\ emits' = <<ClientToEmit(jn, c, roomId, "userJoinedRoom", userId[c])>>
  /\ calls' = <<>>
  /\ UNCHANGED <<status, handshake, userId, userSessions, socketToUser,
                 typingUsers, messages, inflight, balance>>

\* announces the join with this.server.to(roomId), the joiner included
handleJoinRoomNotifiesRoom(c, roomId) ==
  LET u == userId[c]
      jn == [joined EXCEPT ![c] = @ \cup {roomId}]
  IN
  /\ IF u = ""
     THEN /\ emits' = <<>>
          /\ UNCHANGED joined
     ELSE /\ joined' = jn
          /\ emits' = <<ServerToEmit(jn, roomId, "userJoinedRoom", u, 0)>>
  /\ calls' = <<>>
  /\ UNCHANGED <<status, handshake, userId, userSessions, socketToUser,
                 typingUsers, messages, inflight, balance>>

handleJoinRoom(c, roomId) ==
  LET u == userId[c]
      jn == [joined EXCEPT ![c] = @ \cup {roomId}]
  IN
  /\ IF u = ""
     THEN /\ emits' = <<>>
          /\ UNCHANGED joined
     ELSE /\ joined' = jn
          /\ emits' = <<ClientToEmit(jn, c, roomId, "userJoinedRoom", u)>>
  /\ calls' = <<>>
  /\ UNCHANGED <<status, handshake, userId, userSessions, socketToUser,
                 typingUsers, messages, inflight, balance>>

\* a gateway that serves nobody while a persistence call is outstanding
JoinRoomWhenIdle(c, roomId) ==
  /\ inflight = <<>>
  /\ status[c] = "open"
  /\ handleJoinRoom(c, roomId)
  /\ last' = Handled("joinRoom", c, roomId, FALSE, NoDto)

JoinRoom(c, roomId) ==
  /\ status[c] = "open"
  /\ handleJoinRoom(c, roomId)
  /\ last' = Handled("joinRoom", c, roomId, FALSE, NoDto)

\* leaves the room and forgets about the typing set
handleLeaveRoomKeepsTyping(c, roomId) ==
  LET u == userId[c]
      jn == [joined EXCEPT ![c] = @ \ {roomId}]
  IN
  /\ IF u = ""
     THEN /\ emits' = <<>>
          /\ UNCHANGED joined
     ELSE /\ joined' = jn
          /\ emits' = <<ClientToEmit(jn, c, roomId, "userLeftRoom", u)>>
  /\ calls' = <<>>
  /\ UNCHANGED <<status, handshake, userId, userSessions, socketToUser,
                 typingUsers, messages, inflight, balance>>

\* drops the whole typing set of the room
handleLeaveRoomClearsRoom(c, roomId) ==
  LET u == userId[c]
      jn == [joined EXCEPT ![c] = @ \ {roomId}]
      wasTyping == roomId \in DOMAIN typingUsers /\ u \in typingUsers[roomId]
  IN
  /\ IF u = ""
     THEN /\ emits' = <<>>
          /\ UNCHANGED <<joined, typingUsers>>
     ELSE /\ joined' = jn
          /\ typingUsers' = IF wasTyping
                            THEN [typingUsers EXCEPT ![roomId] = {}]
                            ELSE typingUsers
          /\ emits' = (IF wasTyping
                       THEN <<ClientToEmit(jn, c, roomId, "userStoppedTyping", u)>>
                       ELSE <<>>)
                      \o <<ClientToEmit(jn, c, roomId, "userLeftRoom", u)>>
  /\ calls' = <<>>
  /\ UNCHANGED <<status, handshake, userId, userSessions, socketToUser,
                 messages, inflight, balance>>

handleLeaveRoom(c, roomId) ==
  LET u == userId[c]
      jn == [joined EXCEPT ![c] = @ \ {roomId}]
      wasTyping == roomId \in DOMAIN typingUsers /\ u \in typingUsers[roomId]
  IN
  /\ IF u = ""
     THEN /\ emits' = <<>>
          /\ UNCHANGED <<joined, typingUsers>>
     ELSE /\ joined' = jn
          /\ typingUsers' = IF wasTyping
                            THEN [typingUsers EXCEPT ![roomId] = @ \ {u}]
                            ELSE typingUsers
          /\ emits' = (IF wasTyping
                       THEN <<ClientToEmit(jn, c, roomId, "userStoppedTyping", u)>>
                       ELSE <<>>)
                      \o <<ClientToEmit(jn, c, roomId, "userLeftRoom", u)>>
  /\ calls' = <<>>
  /\ UNCHANGED <<status, handshake, userId, userSessions, socketToUser,
                 messages, inflight, balance>>

LeaveRoom(c, roomId) ==
  /\ status[c] = "open"
  /\ handleLeaveRoom(c, roomId)
  /\ last' = Handled("leaveRoom", c, roomId, FALSE, NoDto)

(***************************************************************************)
(* handleTyping: data.roomId "" stands for an omitted roomId.              *)
(***************************************************************************)
\* takes data.roomId as it comes
handleTypingNoDefault(c, dataRoomId, isTyping) ==
  LET u == userId[c]
      roomId == dataRoomId
      tu == IF roomId \in DOMAIN typingUsers THEN typingUsers
            ELSE MapSet(typingUsers, roomId, {})
  IN
  /\ IF u = ""
     THEN /\ emits' = <<>>
          /\ UNCHANGED typingUsers
     ELSE IF isTyping
          THEN /\ typingUsers' = [tu EXCEPT ![roomId] = @ \cup {u}]
               /\ emits' = <<ClientToEmit(joined, c, roomId, "userTyping", u)>>
          ELSE /\ typingUsers' = [tu EXCEPT ![roomId] = @ \ {u}]
               /\ emits' = <<ClientToEmit(joined, c, roomId, "userStoppedTyping", u)>>
  /\ calls' = <<>>
  /\ UNCHANGED <<status, handshake, userId, joined, userSessions, socketToUser,
                 messages, inflight, balance>>

handleTyping(c, dataRoomId, isTyping) ==
  LET u == userId[c]
      roomId == IF dataRoomId # "" THEN dataRoomId ELSE "general"
      tu == IF roomId \in DOMAIN typingUsers THEN typingUsers
            ELSE MapSet(typingUsers, roomId, {})
  IN
  /\ IF u = ""
     THEN /\ emits' = <<>>
          /\ UNCHANGED typingUsers
     ELSE IF isTyping
          THEN /\ typingUsers' = [tu EXCEPT ![roomId] = @ \cup {u}]
               /\ emits' = <<ClientToEmit(joined, c, roomId, "userTyping", u)>>
          ELSE /\ typingUsers' = [tu EXCEPT ![roomId] = @ \ {u}]
               /\ emits' = <<ClientToEmit(joined, c, roomId, "userStoppedTyping", u)>>
  /\ calls' = <<>>
  /\ UNCHANGED <<status, handshake, userId, joined, userSessions, socketToUser,
                 messages, inflight, balance>>

Typing(c, dataRoomId, isTyping) ==
  /\ status[c] = "open"
  /\ handleTyping(c, dataRoomId, isTyping)
  /\ last' = Handled("typing", c, dataRoomId, isTyping, NoDto)

(***************************************************************************)
(* handleGetOnlineUsers                                                    *)
(***************************************************************************)
\* answers with the users of the default room
handleGetOnlineUsersOfRoom(c) ==
  /\ emits' = <<ClientEmit(status, c, "onlineUsers",
                           {userId[d] : d \in InRoom(joined, "general")} \ {""}, "")>>
  /\ calls' = <<>>
  /\ UNCHANGED <<status, handshake, userId, joined, userSessions, socketToUser,
                 typingUsers, messages, inflight, balance>>

handleGetOnlineUsers(c) ==
  /\ emits' = <<ClientEmit(status, c, "onlineUsers", DOMAIN userSessions, "")>>
  /\ calls' = <<>>
  /\ UNCHANGED <<status, handshake, userId, joined, userSessions, socketToUser,
                 typingUsers, messages, inflight, balance>>

GetOnlineUsers(c) ==
  /\ status[c] = "open"
  /\ handleGetOnlineUsers(c)
  /\ last' = Handled("getOnlineUsers", c, "", FALSE, NoDto)

(***************************************************************************)
(* MessageService, as far as handleMessage uses it.  A row of the message  *)
(* table is [authorId, content, parentMessageId, isDeleted]; its id is its *)
(* index.  Every user id of Users has a row in the user table.             *)
(***************************************************************************)
MessageExists(id) == id \in 1..Len(messages) /\ ~messages[id].isDeleted

\* createMessage resolves when the author exists and the parent, if any, is
\* an undeleted message; otherwise it throws NotFoundException
createMessageAccepts(args) ==
  /\ args.authorId \in Users
  /\ args.parentMessageId # 0 => MessageExists(args.parentMessageId)

createMessageRow(args) ==
  [authorId |-> args.authorId, content |-> args.content,
   parentMessageId |-> args.parentMessageId, isDeleted |-> FALSE,
   isEdited |-> FALSE]

(***************************************************************************)
(* MessageService.updateMessage / deleteMessage, reached through the REST  *)
(* controller, and the gateway methods they are written to call.           *)
(***************************************************************************)
\* the 'ChatGateway' provider of MessageModule: useFactory: () => null
chatGateway == ""

UpdatedContents == {"edited"}

\* a step of the service: a repository save, or a call of a gateway method
ServiceCall(op, id, authorId) ==
  [op |-> op, conn |-> "", messageId |-> id, authorId |-> authorId]

\* an update sent to the author's personal room only
broadcastMessageUpdateToAuthor(st, messageId, content, authorId) ==
  Event("messageUpdated", InRoom(joined, "user:" \o authorId) \cap Live(st),
        authorId, "", messageId, {}, content)

broadcastMessageUpdate(st, messageId, content, authorId) ==
  Event("messageUpdated", Live(st), authorId, "", messageId, {}, content)

broadcastMessageDelete(st, messageId, authorId) ==
  Event("messageDeleted", Live(st), authorId, "", messageId, {}, "")

\* the two public methods of the gateway, called by whoever holds it
BroadcastMessageUpdate(messageId, content, authorId) ==
  /\ emits' = <<broadcastMessageUpdate(status, messageId, content, authorId)>>
  /\ calls' = <<>>
  /\ last' = Handled("broadcastMessageUpdate", "", "", FALSE, NoDto)
  /\ UNCHANGED <<status, handshake, userId, joined, userSessions, socketToUser,
                 typingUsers, messages, inflight, balance>>

BroadcastMessageDelete(messageId, authorId) ==
  /\ emits' = <<broadcastMessageDelete(status, messageId, authorId)>>
  /\ calls' = <<>>
  /\ last' = Handled("broadcastMessageDelete", "", "", FALSE, NoDto)
  /\ UNCHANGED <<status, handshake, userId, joined, userSessions, socketToUser,
                 typingUsers, messages, inflight, balance>>

UpdateMessage(id, content, authorId) ==
  LET found == MessageExists(id)
      allowed == found /\ messages[id].authorId = authorId
  IN
  /\ IF allowed
     THEN /\ messages' = [messages EXCEPT ![id].content = content,
                                          ![id].isEdited = TRUE]
          /\ last' = Handled("updateMessage", "", "", FALSE, NoDto)
          /\ IF chatGateway # ""
             THEN /\ calls' = <<ServiceCall("save", id, authorId),
                                ServiceCall("broadcastMessageUpdate", id, authorId)>>
                  /\ emits' = <<broadcastMessageUpdate(status, id, content, authorId)>>
             ELSE /\ calls' = <<ServiceCall("save", id, authorId)>>
                  /\ emits' = <<>>
     ELSE /\ last' = Handled("updateMessage rejected", "", "", FALSE, NoDto)
          /\ calls' = <<>>
          /\ emits' = <<>>
          /\ UNCHANGED messages
  /\ UNCHANGED <<status, handshake, userId, joined, userSessions, socketToUser,
                 typingUsers, inflight, balance>>

DeleteMessage(id, authorId) ==
  LET found == MessageExists(id)
      allowed == found /\ messages[id].authorId = authorId
  IN
  /\ IF allowed
     THEN /\ messages' = [messages EXCEPT ![id].isDeleted = TRUE]
          /\ last' = Handled("deleteMessage", "", "", FALSE, NoDto)
          /\ IF chatGateway # ""
             THEN /\ calls' = <<ServiceCall("save", id, authorId),
                                ServiceCall("broadcastMessageDelete", id, authorId)>>
                  /\ emits' = <<broadcastMessageDelete(status, id, authorId)>>
             ELSE /\ calls' = <<ServiceCall("save", id, authorId)>>
                  /\ emits' = <<>>
     ELSE /\ last' = Handled("deleteMessage rejected", "", "", FALSE, NoDto)
          /\ calls' = <<>>
          /\ emits' = <<>>
          /\ UNCHANGED messages
  /\ UNCHANGED <<status, handshake, userId, joined, userSessions, socketToUser,
                 typingUsers, inflight, balance>>

(***************************************************************************)
(* handleMessage, in the three pieces its two awaits cut it into.          *)
(***************************************************************************)
\* the spread written last: the client's authorId wins when it sent one
createMessageArgsTrustsClient(dto, u) ==
  IF dto.authorId # "" THEN dto ELSE [dto EXCEPT !.authorId = u]

\* the argument of createMessage: { ...createMessageDto, authorId: client.userId }
createMessageArgs(dto, u) == [dto EXCEPT !.authorId = u]

RemoveAt(seq, i) == SubSeq(seq, 1, i - 1) \o SubSeq(seq, i + 1, Len(seq))

\* an unauthenticated sender becomes the author its payload names
handleMessageAdoptsAuthor(c, dto) ==
  LET u == IF userId[c] # "" THEN userId[c] ELSE dto.authorId
      args == createMessageArgs(dto, u)
  IN
  /\ userId' = [userId EXCEPT ![c] = u]
  /\ IF u = ""
     THEN /\ emits' = <<ClientEmit(status, c, "error", {}, "User not authenticated")>>
          /\ calls' = <<>>
          /\ UNCHANGED inflight
     ELSE /\ Len(inflight) < MaxPending
          /\ emits' = <<>>
          /\ calls' = <<[op |-> "createMessage", conn |-> c, args |-> args]>>
          /\ inflight' = Append(inflight,
                                [conn |-> c, args |-> args, await |-> "createMessage",
                                 messageId |-> 0])
  /\ UNCHANGED <<status, handshake, joined, userSessions, socketToUser,
                 typingUsers, messages, balance>>

\* up to the await of createMessage
handleMessage(c, dto) ==
  LET u == userId[c]
      args == createMessageArgs(dto, u)
  IN
  /\ IF u = ""
     THEN /\ emits' = <<ClientEmit(status, c, "error", {}, "User not authenticated")>>
          /\ calls' = <<>>
          /\ UNCHANGED inflight
     ELSE /\ Len(inflight) < MaxPending
          /\ emits' = <<>>
          /\ calls' = <<[op |-> "createMessage", conn |-> c, args |-> args]>>
          /\ inflight' = Append(inflight,
                                [conn |-> c, args |-> args, await |-> "createMessage",
                                 messageId |-> 0])
  /\ UNCHANGED <<status, handshake, userId, joined, userSessions, socketToUser,
                 typingUsers, messages, balance>>

SendMessage(c, dto) ==
  /\ status[c] = "open"
  /\ handleMessage(c, dto)
  /\ last' = Handled("sendMessage", c, "", FALSE, dto)

\* a completion that registers the sender again
CreateMessageResolvesRegisters(i) ==
  LET req == inflight[i]
      id == Len(messages) + 1
      message == createMessageRow(req.args)
  IN
  /\ req.await = "createMessage"
  /\ last' = Handled("createMessage resolved", req.conn, "", FALSE, NoDto)
  /\ createMessageAccepts(req.args)
  /\ Len(messages) < MaxMessages
  /\ messages' = Append(messages, message)
  /\ emits' = <<ServerEmit(status, "newMessage", message.authorId, id)>>
  /\ IF message.parentMessageId # 0
     THEN /\ calls' = <<[op |-> "getMessageById", conn |-> req.conn,
                         args |-> req.args]>>
          /\ inflight' = [inflight EXCEPT ![i].await = "getMessageById",
                                          ![i].messageId = id]
     ELSE /\ calls' = <<>>
          /\ inflight' = RemoveAt(inflight, i)
  /\ socketToUser' = MapSet(socketToUser, req.conn, userId[req.conn])
  /\ UNCHANGED <<status, handshake, userId, joined, userSessions,
                 typingUsers, balance>>

\* createMessage returns a message: broadcast it, then look the parent up
CreateMessageResolves(i) ==
  LET req == inflight[i]
      id == Len(messages) + 1
      message == createMessageRow(req.args)
  IN
  /\ req.await = "createMessage"
  /\ last' = Handled("createMessage resolved", req.conn, "", FALSE, NoDto)
  /\ createMessageAccepts(req.args)
  /\ Len(messages) < MaxMessages
  /\ messages' = Append(messages, message)
  /\ emits' = <<ServerEmit(status, "newMessage", message.authorId, id)>>
  /\ IF message.parentMessageId # 0
     THEN /\ calls' = <<[op |-> "getMessageById", conn |-> req.conn,
                         args |-> req.args]>>
          /\ inflight' = [inflight EXCEPT ![i].await = "getMessageById",
                                          ![i].messageId = id]
     ELSE /\ calls' = <<>>
          /\ inflight' = RemoveAt(inflight, i)
  /\ UNCHANGED <<status, handshake, userId, joined, userSessions, socketToUser,
                 typingUsers, balance>>

\* getMessageById returns the parent: notify its author unless it is the sender
GetMessageByIdResolves(i) ==
  LET req == inflight[i]
      c == req.conn
      message == messages[req.messageId]
      parentMessage == messages[message.parentMessageId]
  IN
  /\ req.await = "getMessageById"
  /\ last' = Handled("getMessageById resolved", c, "", FALSE, NoDto)
  /\ MessageExists(message.parentMessageId)
  /\ emits' = IF parentMessage.authorId # userId[c]
              THEN notifyUser(userSessions, joined, parentMessage.authorId,
                              "messageReply", userId[c], req.messageId)
              ELSE <<>>
  /\ calls' = <<>>
  /\ inflight' = RemoveAt(inflight, i)
  /\ UNCHANGED <<status, handshake, userId, joined, userSessions, socketToUser,
                 typingUsers, messages, balance>>

\* a catch block that also drops the client
AwaitRejectsDisconnects(i) ==
  LET req == inflight[i]
  IN
  /\ last' = Handled(req.await \o " rejected", req.conn, "", FALSE, NoDto)
  /\ emits' = <<ClientEmit(status, req.conn, "error", {}, "Failed to send message")>>
  /\ calls' = <<>>
  /\ inflight' = RemoveAt(inflight, i)
  /\ status' = [status EXCEPT ![req.conn] = "closed"]
  /\ joined' = [joined EXCEPT ![req.conn] = {}]
  /\ UNCHANGED <<handshake, userId, userSessions, socketToUser,
                 typingUsers, messages, balance>>

\* either await throws (NotFoundException, a database error, a timeout): the
\* catch block tells the client
AwaitRejects(i) ==
  LET req == inflight[i]
  IN
  /\ last' = Handled(req.await \o " rejected", req.conn, "", FALSE, NoDto)
  /\ emits' = <<ClientEmit(status, req.conn, "error", {}, "Failed to send message")>>
  /\ calls' = <<>>
  /\ inflight' = RemoveAt(inflight, i)
  /\ UNCHANGED <<status, handshake, userId, joined, userSessions, socketToUser,
                 typingUsers, messages, balance>>

\* Every handler together.  To keep the product of the room, typing and
\* message state explorable, rooms are joined and left by the name "r1" only
\* ("general" stays the room of a typing event without roomId) and the dto
\* always carries somebody's authorId.
Next ==
  \/ \E i \in 1..MaxConns, hs \in Handshakes : Connect(i, hs)
  \/ \E c \in ConnIds : Disconnect(c)
  \/ \E c \in ConnIds : JoinRoom(c, "r1")
  \/ \E c \in ConnIds : LeaveRoom(c, "r1")
  \/ \E c \in ConnIds, r \in {"", "r1"}, t \in BOOLEAN : Typing(c, r, t)
  \/ \E c \in ConnIds : GetOnlineUsers(c)
  \/ \E c \in ConnIds, dto \in {d \in Dtos : d.authorId = "u2"} :
        (userId[c] # "" => Len(inflight) < MaxInflight) /\ SendMessage(c, dto)
  \/ \E i \in 1..Len(inflight) : CreateMessageResolves(i)
  \/ \E i \in 1..Len(inflight) : GetMessageByIdResolves(i)
  \/ \E i \in 1..Len(inflight) : AwaitRejects(i)

Spec == Init /\ [][Next]_vars

(***************************************************************************)
(* The connection, room and typing handlers alone: every action that       *)
(* writes the registry, the rooms or the typing sets.                      *)
(***************************************************************************)
NextPresence ==
  \/ \E i \in 1..MaxConns, hs \in Handshakes : Connect(i, hs)
  \/ \E c \in ConnIds : Disconnect(c)
  \/ \E c \in ConnIds, r \in ClientRooms : JoinRoom(c, r)
  \/ \E c \in ConnIds, r \in ClientRooms : LeaveRoom(c, r)
  \/ \E c \in ConnIds, r \in {""} \cup ClientRooms, t \in BOOLEAN : Typing(c, r, t)
  \/ \E c \in ConnIds : GetOnlineUsers(c)

SpecPresence == Init /\ [][NextPresence]_vars

(***************************************************************************)
(* The same handlers, with every teardown possibly run a second time.      *)
(***************************************************************************)
NextTeardown ==
  \/ NextPresence
  \/ \E c \in ConnIds : DisconnectAgain(c)

SpecTeardown == Init /\ [][NextTeardown]_vars

(***************************************************************************)
(* The registry helper on its own: associateUserWithSocket applied to the  *)
(* two Maps with any userId and any socket id, registered or not.          *)
(***************************************************************************)
Register(u, s) ==
  LET reg == associateUserWithSocket(userSessions, socketToUser, u, s)
  IN
  /\ userSessions' = reg.userSessions
  /\ socketToUser' = reg.socketToUser
  /\ emits' = <<>>
  /\ calls' = <<>>
  /\ last' = Handled("associateUserWithSocket", s, "", FALSE, NoDto)
  /\ UNCHANGED <<status, handshake, userId, joined, typingUsers, messages,
                 inflight, balance>>

NextRegistry == \E u \in Users, s \in ConnIds : Register(u, s)

SpecRegistry == Init /\ [][NextRegistry]_vars

(***************************************************************************)
(* The message path: connections come, join rooms and go while             *)
(* handleMessage invocations are suspended and resumed.                    *)
(***************************************************************************)
NextMessages ==
  \/ \E i \in 1..MaxConns, hs \in Handshakes : Connect(i, hs)
  \/ \E c \in ConnIds : Disconnect(c)
  \/ \E c \in ConnIds, r \in ClientRooms : JoinRoom(c, r)
  \/ \E c \in ConnIds, dto \in Dtos :
        (userId[c] # "" => Len(inflight) < MaxInflight) /\ SendMessage(c, dto)
  \/ \E i \in 1..Len(inflight) : CreateMessageResolves(i)
  \/ \E i \in 1..Len(inflight) : GetMessageByIdResolves(i)
  \/ \E i \in 1..Len(inflight) : AwaitRejects(i)

SpecMessages == Init /\ [][NextMessages]_vars

(***************************************************************************)
(* Reply notifications: authenticated connections of two users, one of    *)
(* them on several devices, which join rooms of their own choosing (any    *)
(* string is accepted as roomId, a socket id included) and reply to each   *)
(* other's messages.                                                       *)
(***************************************************************************)
NextReply ==
  \/ \E i \in 1..MaxSockets, hs \in {h \in Handshakes : h.token # "" /\ h.userId # ""} :
        Connect(i, hs)
  \/ \E c \in ConnIds : Disconnect(c)
  \/ \E c \in ConnIds, r \in ConnIds : JoinRoom(c, r)
  \/ \E c \in ConnIds, dto \in {d \in Dtos : d.authorId = ""} :
        (userId[c] # "" => Len(inflight) < MaxInflight) /\ SendMessage(c, dto)
  \/ \E i \in 1..Len(inflight) : CreateMessageResolves(i)
  \/ \E i \in 1..Len(inflight) : GetMessageByIdResolves(i)
  \/ \E i \in 1..Len(inflight) : AwaitRejects(i)

SpecReply == Init /\ [][NextReply]_vars

(***************************************************************************)
(* Payloads without roomId.  The handlers take @MessageBody() as it comes: *)
(* no pipe is bound to the gateway, so a missing roomId arrives as         *)
(* undefined ("" here) and names one more socket.io room.                  *)
(***************************************************************************)
NextPayload ==
  \/ \E i \in 1..MaxConns, hs \in Handshakes : Connect(i, hs)
  \/ \E c \in ConnIds : Disconnect(c)
  \/ \E c \in ConnIds, r \in {"", "r1"} : JoinRoom(c, r)
  \/ \E c \in ConnIds, r \in {"", "r1"} : LeaveRoom(c, r)
  \/ \E c \in ConnIds, r \in {"", "r1"}, t \in BOOLEAN : Typing(c, r, t)

SpecPayload == Init /\ [][NextPayload]_vars

(***************************************************************************)
(* Messages created through the gateway and then edited or deleted by      *)
(* their author, or tried by somebody else, through MessageService.        *)
(***************************************************************************)
NextMutations ==
  \/ \E i \in 1..MaxConns, hs \in {h \in Handshakes : h.token # "" /\ h.userId # ""} :
        Connect(i, hs)
  \/ \E c \in ConnIds : Disconnect(c)
  \/ \E c \in ConnIds, dto \in {d \in Dtos : d.authorId = ""} :
        Len(inflight) < MaxInflight /\ SendMessage(c, dto)
  \/ \E i \in 1..Len(inflight) : CreateMessageResolves(i)
  \/ \E i \in 1..Len(inflight) : GetMessageByIdResolves(i)
  \/ \E i \in 1..Len(inflight) : AwaitRejects(i)
  \/ \E id \in 1..MaxMessages, t \in UpdatedContents, u \in Users : UpdateMessage(id, t, u)
  \/ \E id \in 1..MaxMessages, u \in Users : DeleteMessage(id, u)

SpecMutations == Init /\ [][NextMutations]_vars

(***************************************************************************)
(* The gateway's public broadcast methods called directly, with sockets    *)
(* of every kind connected.                                                *)
(***************************************************************************)
NextBroadcast ==
  \/ \E i \in 1..MaxConns, hs \in Handshakes : Connect(i, hs)
  \/ \E c \in ConnIds : Disconnect(c)
  \/ \E c \in ConnIds, r \in ClientRooms : JoinRoom(c, r)
  \/ \E c \in ConnIds, t \in BOOLEAN : Typing(c, "r1", t)
  \/ \E id \in 1..MaxMessages, t \in UpdatedContents, u \in Users :
        BroadcastMessageUpdate(id, t, u)
  \/ \E id \in 1..MaxMessages, u \in Users : BroadcastMessageDelete(id, u)

SpecBroadcast == Init /\ [][NextBroadcast]_vars

(***************************************************************************)
(* Concurrency: two authenticated connections whose handleMessage          *)
(* invocations, up to MaxPending of them, are suspended at createMessage   *)
(* while the other handlers go on.  All handlers run on the one event loop *)
(* of the process: a handler runs from an event, or from the settling of   *)
(* the promise it awaits, to its next await or its end.                    *)
(***************************************************************************)
NextConcurrent ==
  \/ \E i \in 1..MaxConns, hs \in {h \in Handshakes : h.token # "" /\ h.userId # ""} :
        Connect(i, hs)
  \/ \E c \in ConnIds : Disconnect(c)
  \/ \E c \in ConnIds : JoinRoom(c, "r1")
  \/ \E c \in ConnIds : LeaveRoom(c, "r1")
  \/ \E c \in ConnIds, t \in BOOLEAN : Typing(c, "r1", t)
  \/ \E c \in ConnIds : GetOnlineUsers(c)
  \/ \E c \in ConnIds, dto \in NumberedDtos : SendMessage(c, dto)
  \/ \E i \in 1..Len(inflight) : CreateMessageResolves(i)
  \/ \E i \in 1..Len(inflight) : AwaitRejects(i)

SpecConcurrent == Init /\ [][NextConcurrent]_vars

(***************************************************************************)
(* Properties.                                                             *)
(***************************************************************************)
InboundEvents == {"joinRoom", "leaveRoom", "sendMessage", "typing", "getOnlineUsers"}

EventsNamed(es, ev) == {i \in DOMAIN es : es[i].event = ev}

\* C1: handleConnection emits userOnline for u only when u had no registered
\* connection immediately before the call; a further connection of a user
\* who is already connected emits none.
C1_OnlineOnlyOnFirstConnection ==
  [][last'.op = "connection" =>
       \A i \in EventsNamed(emits', "userOnline") :
          emits'[i].userId \notin DOMAIN userSessions]_vars

\* C2: handleDisconnect of an authenticated connection c of user u emits a
\* global userOffline{u} exactly once when c was u's last registered
\* connection, and none while u still has another registered connection.
C2_OfflineExactlyOnLastDisconnect ==
  [][(last'.op = "disconnect" /\ userId[last'.conn] # "") =>
       LET c == last'.conn
           u == userId[c]
           off == {i \in EventsNamed(emits', "userOffline") : emits'[i].userId = u}
       IN  /\ (u \in DOMAIN userSessions /\ userSessions[u] = {c}) =>
                 /\ Cardinality(off) = 1
                 /\ \A i \in off : emits'[i].to = Live(status')
           /\ (u \in DOMAIN userSessions /\ userSessions[u] \ {c} # {}) =>
                 off = {}]_vars

\* both devices of one user are gone and the second disconnect, the last
\* step, emitted the one userOffline
C2_Witness ==
  /\ last.op = "disconnect"
  /\ \E d \in ConnIds \ {last.conn} :
        /\ status[d] = "closed"
        /\ userId[d] = userId[last.conn]
        /\ userId[d] # ""
  /\ Cardinality(EventsNamed(emits, "userOffline")) = 1

\* C3: for every user the emitted presence events alternate: userOnline
\* emitted minus userOffline emitted is always 0 or 1.
C3_PresenceAlternates == \A u \in Users : balance[u] \in {0, 1}

\* C4: the registry is consistent: a userId is a key of userSessions iff a
\* live registered connection belongs to it (never an empty set),
\* socketToUser[s] = u exactly when s is in userSessions[u], and a socket id
\* is in at most one user's set.
C4_RegistryConsistent ==
  /\ \A u \in DOMAIN userSessions :
        /\ userSessions[u] # {}
        /\ \A s \in userSessions[u] : status[s] = "open" /\ userId[s] = u
  /\ \A u \in Users :
        u \in DOMAIN userSessions <=>
          \E c \in ConnIds : status[c] = "open" /\ userId[c] = u
  /\ \A s \in ConnIds, u \in Users :
        (s \in DOMAIN socketToUser /\ socketToUser[s] = u) <=>
          (u \in DOMAIN userSessions /\ s \in userSessions[u])
  /\ DOMAIN socketToUser \subseteq ConnIds
  /\ \A u, v \in DOMAIN userSessions :
        u # v => userSessions[u] \cap userSessions[v] = {}

\* a registered socket has just gone while another stays registered
C4_Witness ==
  /\ last.op = "disconnect"
  /\ userId[last.conn] # ""
  /\ DOMAIN userSessions # {}

\* C5: for every room r ("general" included) each userId in typingUsers[r]
\* has a live connection that is joined to r.
C5_TypingUsersAreRoomMembers ==
  \A r \in DOMAIN typingUsers : \A u \in typingUsers[r] :
     \E c \in ConnIds : status[c] = "open" /\ userId[c] = u /\ r \in joined[c]

\* C6: a connection whose userId was never set is in no room a joinRoom could
\* add it to, has caused no createMessage call, is in no userSessions set and
\* in no typing set.
C6_UnauthenticatedIsInvisible ==
  /\ \A c \in ConnIds : userId[c] = "" =>
        /\ joined[c] \subseteq {c}
        /\ \A i \in DOMAIN calls : calls[i].conn # c
        /\ \A i \in DOMAIN inflight : inflight[i].conn # c
        /\ \A u \in DOMAIN userSessions : c \notin userSessions[u]
        /\ c \notin DOMAIN socketToUser
  /\ \A r \in DOMAIN typingUsers : "" \notin typingUsers[r]

\* an open connection without userId has just asked to join a room
C6_Witness ==
  /\ last.op = "joinRoom"
  /\ status[last.conn] = "open"
  /\ userId[last.conn] = ""

\* C7: an inbound event from an unauthenticated connection is answered with
\* an error event to that connection only, and otherwise changes nothing.
C7_UnauthenticatedGetsAuthError ==
  [][(last'.op \in InboundEvents /\ userId[last'.conn] = "") =>
       /\ Len(emits') = 1
       /\ emits'[1].event = "error"
       /\ emits'[1].to = {last'.conn}
       /\ calls' = <<>>
       /\ UNCHANGED <<status, userId, joined, userSessions, socketToUser,
                      typingUsers, messages, inflight>>]_vars

\* C8: a connection is registered under u only if the identity verifier
\* accepts its token and returns u.
C8_RegisteredOnlyIfVerified ==
  \A u \in DOMAIN userSessions : \A c \in userSessions[u] :
     JwtVerify(handshake[c].token) = u

\* C9: every createMessage call of handleMessage carries the sending
\* connection's userId as authorId, whatever authorId the payload has.
C9_AuthorIsTheConnectionsUser ==
  /\ \A i \in DOMAIN calls : calls[i].op = "createMessage" =>
        /\ userId[calls[i].conn] # ""
        /\ calls[i].args.authorId = userId[calls[i].conn]
  /\ \A i \in DOMAIN inflight :
        inflight[i].args.authorId = userId[inflight[i].conn]

\* the payload named somebody else as the author
C9_Witness ==
  /\ last.op = "sendMessage"
  /\ Len(calls) = 1
  /\ last.dto.authorId # ""
  /\ last.dto.authorId # userId[last.conn]

\* C10: when createMessage succeeds, exactly one newMessage carrying the
\* created message goes to every live connection, whatever its rooms, the
\* sender included.
C10_NewMessageIsGlobal ==
  last.op = "createMessage resolved" =>
    LET nm == EventsNamed(emits, "newMessage")
    IN  /\ Cardinality(nm) = 1
        /\ \A i \in nm :
              /\ emits[i].to = Live(status)
              /\ emits[i].messageId = Len(messages)
              /\ emits[i].userId = messages[Len(messages)].authorId
              /\ status[last.conn] = "open" => last.conn \in emits[i].to

\* the sender and a connection with other rooms are both live
C10_Witness ==
  /\ last.op = "createMessage resolved"
  /\ status[last.conn] = "open"
  /\ \E d \in ConnIds \ {last.conn} :
        /\ status[d] = "open"
        /\ joined[d] \cap ClientRooms # joined[last.conn] \cap ClientRooms

\* C11: when createMessage fails for a sendMessage (the parent does not
\* exist, the database fails, the call times out) the sender, while it is
\* connected, receives exactly one error event; no other connection receives
\* anything, and no newMessage or messageReply is emitted.
C11_CreateFailureErrorsSenderOnly ==
  last.op = "createMessage rejected" =>
    /\ Len(emits) = 1
    /\ emits[1].event = "error"
    /\ emits[1].to \subseteq {last.conn}
    /\ status[last.conn] = "open" => emits[1].to = {last.conn}
    /\ EventsNamed(emits, "newMessage") = {}
    /\ EventsNamed(emits, "messageReply") = {}
    /\ calls = <<>>

\* createMessage has just failed for a connected sender while another
\* connection is live
C11_Witness ==
  /\ last.op = "createMessage rejected"
  /\ status[last.conn] = "open"
  /\ \E d \in ConnIds \ {last.conn} : status[d] = "open"
  /\ Len(emits) = 1
  /\ emits[1].to = {last.conn}

\* C12: a sendMessage is all-or-nothing: whatever createMessage and the
\* later getMessageById do, the handler never both broadcasts newMessage and
\* sends the sender an error event for the same request.  (An invocation
\* suspended at getMessageById has had its newMessage broadcast.)
C12_BroadcastOrErrorNeverBoth ==
  last.op = "getMessageById rejected" =>
    \A i \in EventsNamed(emits, "error") : last.conn \notin emits[i].to

\* C13: when the created message has a parent whose author B is not the
\* sender A, every connection registered to B at notification time receives
\* messageReply exactly once; when the parent's author is the sender, no
\* messageReply is emitted to anyone.
C13_ReplyNotifiesParentAuthorOnce ==
  last.op = "getMessageById resolved" =>
    LET A == userId[last.conn]
        reply == messages[Len(messages)]
        B == messages[reply.parentMessageId].authorId
        mr == EventsNamed(emits, "messageReply")
    IN  IF B # A
        THEN \A d \in ConnIds :
                (status[d] = "open" /\ userId[d] = B) =>
                   Cardinality({i \in mr : d \in emits[i].to}) = 1
        ELSE mr = {}

\* C14: running handleDisconnect twice on the same connection leaves
\* userSessions, socketToUser and typingUsers exactly as the first run left
\* them (and the second run completes).
C14_SecondTeardownKeepsState ==
  [][last'.op = "disconnect again" =>
       UNCHANGED <<userSessions, socketToUser, typingUsers>>]_vars

\* the second run was on a socket of a user who is still online elsewhere
C14_Witness ==
  /\ last.op = "disconnect again"
  /\ userId[last.conn] # ""
  /\ userId[last.conn] \in DOMAIN userSessions

\* C15: a second handleDisconnect on a torn-down connection has no
\* observable effect: it emits no userOffline and no userStoppedTyping.
C15_SecondTeardownEmitsNothing ==
  last.op = "disconnect again" =>
    /\ EventsNamed(emits, "userOffline") = {}
    /\ EventsNamed(emits, "userStoppedTyping") = {}

\* C16: a typing event from connection c of user A for room r delivers
\* userTyping{A} (isTyping true) or userStoppedTyping{A} (isTyping false) to
\* every other connection joined to r, and never to c itself nor to a
\* connection not joined to r.
C16_TypingReachesTheOtherMembers ==
  (last.op = "typing" /\ userId[last.conn] # "") =>
    LET c == last.conn
        r == IF last.roomId # "" THEN last.roomId ELSE "general"
    IN  /\ Len(emits) = 1
        /\ emits[1].event = (IF last.isTyping THEN "userTyping" ELSE "userStoppedTyping")
        /\ emits[1].userId = userId[c]
        /\ emits[1].roomId = r
        /\ \A d \in ConnIds :
              d \in emits[1].to <=> (d # c /\ status[d] = "open" /\ r \in joined[d])

\* the sender and another connection are both joined to the room
C16_Witness ==
  /\ last.op = "typing"
  /\ last.roomId \in joined[last.conn]
  /\ Len(emits) = 1
  /\ emits[1].to # {}

\* C17: immediately after handleLeaveRoom(r) by an authenticated connection
\* of user u, typingUsers[r] does not contain u, whatever u's typing state
\* in r was before.
C17_LeaveClearsTyping ==
  (last.op = "leaveRoom" /\ userId[last.conn] # "") =>
    (last.roomId \in DOMAIN typingUsers =>
       userId[last.conn] \notin typingUsers[last.roomId])

\* the user was typing in the room it has just left
C17_Witness ==
  /\ last.op = "leaveRoom"
  /\ Len(emits) = 2
  /\ emits[1].event = "userStoppedTyping"
  /\ emits[1].userId = userId[last.conn]

\* C18: after handleDisconnect of user u's last connection, no room's typing
\* set contains u.
C18_DisconnectClearsAllTyping ==
  (/\ last.op = "disconnect"
   /\ userId[last.conn] # ""
   /\ userId[last.conn] \notin DOMAIN userSessions) =>
    \A r \in DOMAIN typingUsers : userId[last.conn] \notin typingUsers[r]

\* the user was typing in two rooms when its last connection went
C18_Witness ==
  /\ last.op = "disconnect"
  /\ userId[last.conn] \notin DOMAIN userSessions
  /\ Cardinality(EventsNamed(emits, "userStoppedTyping")) >= 2

\* C19: getOnlineUsers sends one onlineUsers event to the requesting
\* connection only; its users list is exactly the set of userIds that have a
\* registered connection at that moment, whatever rooms anybody is in.
C19_OnlineUsersAreTheRegisteredUsers ==
  last.op = "getOnlineUsers" =>
    /\ Len(emits) = 1
    /\ emits[1].event = "onlineUsers"
    /\ emits[1].to = {last.conn}
    /\ emits[1].users =
          {u \in Users : \E d \in ConnIds : status[d] = "open" /\ userId[d] = u}

\* a listed user has a connection, none of them in a room a client can join
C19_Witness ==
  /\ last.op = "getOnlineUsers"
  /\ Len(emits) = 1
  /\ \E u \in emits[1].users :
        \A d \in ConnIds : userId[d] = u => joined[d] \cap ClientRooms = {}
  /\ \E d \in ConnIds : status[d] = "open" /\ joined[d] \cap ClientRooms # {}

\* C20: joinRoom(r) by an authenticated connection c makes c a member of r
\* (a repeated join leaves the membership unchanged) and delivers
\* userJoinedRoom{userId, roomId} to the connections already in r and not to
\* c; leaveRoom(r) removes c from r and delivers userLeftRoom to the
\* remaining members of r and not to c.
C20_NoticesReachTheOtherMembers ==
  [][LET c == last'.conn
         r == last'.roomId
         others == {d \in ConnIds \ {c} : status[d] = "open" /\ r \in joined[d]}
     IN  /\ (last'.op = "joinRoom" /\ userId[c] # "") =>
               /\ joined' = [joined EXCEPT ![c] = @ \cup {r}]
               /\ r \in joined[c] => joined' = joined
               /\ Len(emits') = 1
               /\ emits'[1].event = "userJoinedRoom"
               /\ emits'[1].userId = userId[c]
               /\ emits'[1].roomId = r
               /\ emits'[1].to = others
         /\ (last'.op = "leaveRoom" /\ userId[c] # "") =>
               /\ joined' = [joined EXCEPT ![c] = @ \ {r}]
               /\ LET ul == EventsNamed(emits', "userLeftRoom")
                  IN  /\ Cardinality(ul) = 1
                      /\ \A i \in ul :
                            /\ emits'[i].userId = userId[c]
                            /\ emits'[i].roomId = r
                            /\ emits'[i].to = others
               /\ \A i \in DOMAIN emits' : c \notin emits'[i].to]_vars

\* a connection has just joined, for the second time, a room with another
\* member in it
C20_Witness ==
  /\ last.op = "joinRoom"
  /\ Len(emits) = 1
  /\ emits[1].event = "userJoinedRoom"
  /\ emits[1].to # {}
  /\ last.roomId \in joined[last.conn]

\* C21: registering a socket id that is already registered to a different
\* userId is a silent no-op (the mapping and both users' sets stay as they
\* are), and registering the same (socket id, userId) pair again leaves the
\* registry unchanged.
C21_ReRegistrationIsNoOp ==
  [][\A u \in Users, s \in ConnIds :
        (Register(u, s) /\ s \in DOMAIN socketToUser) =>
           UNCHANGED <<userSessions, socketToUser>>]_vars

\* C22: handleDisconnect of a connection that never authenticated completes,
\* emits no event (no userOffline, no userStoppedTyping) and leaves
\* userSessions, socketToUser and typingUsers unchanged.
C22_UnauthenticatedTeardownIsSilent ==
  [][(last'.op = "disconnect" /\ userId[last'.conn] = "") =>
       /\ emits' = <<>>
       /\ UNCHANGED <<userSessions, socketToUser, typingUsers>>]_vars

\* an unauthenticated socket has gone while a user is registered and typing
C22_Witness ==
  /\ last.op = "disconnect"
  /\ userId[last.conn] = ""
  /\ DOMAIN userSessions # {}
  /\ \E r \in DOMAIN typingUsers : typingUsers[r] # {}

\* C24: while a connection's sendMessage is awaiting the MessageService
\* call, an event of any other connection (connect, disconnect, joinRoom,
\* leaveRoom, typing, sendMessage, getOnlineUsers) can be handled: no
\* handler of another connection waits for that call to return.
C24_OtherConnectionsAreServed ==
  inflight # <<>> =>
    /\ \A i \in DOMAIN inflight : \A d \in ConnIds \ {inflight[i].conn} :
          status[d] = "open" =>
            /\ ENABLED Disconnect(d)
            /\ ENABLED JoinRoom(d, "r1")
            /\ ENABLED LeaveRoom(d, "r1")
            /\ \A t \in BOOLEAN : ENABLED Typing(d, "r1", t)
            /\ ENABLED GetOnlineUsers(d)
            /\ Len(inflight) < MaxPending =>
                  \A dto \in NumberedDtos : ENABLED SendMessage(d, dto)
    /\ \A k \in 1..MaxConns :
          (status[SocketIds[k]] = "new" /\ \A j \in 1..(k - 1) : status[SocketIds[j]] # "new") =>
             \A hs \in Handshakes : ENABLED Connect(k, hs)

\* another connection's sendMessage has been handled to its end while the
\* first connection's call, issued earlier, is still outstanding
C24_Witness ==
  /\ last.op = "createMessage resolved"
  /\ Len(inflight) = 1
  /\ inflight[1].conn # last.conn
  /\ inflight[1].await = "createMessage"
  /\ status[last.conn] = "open"

\* C25: the events of one connection are handled in the order received, one
\* handler at a time: of two sendMessage of one connection the newMessage of
\* the first is broadcast before that of the second, and a later event of
\* the connection takes no effect before an earlier sendMessage has ended.
C25_PerConnectionOrder ==
  [][/\ (\E i \in DOMAIN inflight : CreateMessageResolves(i)) =>
          \E i \in DOMAIN inflight :
             /\ CreateMessageResolves(i)
             /\ \A j \in 1..(i - 1) : inflight[j].conn # inflight[i].conn
     /\ last'.op \in InboundEvents =>
          \A j \in DOMAIN inflight : inflight[j].conn # last'.conn]_vars

\* C26: a rejected or failed event on one connection (an event of an
\* unauthenticated connection, a sendMessage whose createMessage fails)
\* leaves the registry, the room memberships and the typing state of every
\* connection unchanged, and the failing connection stays open and
\* registered.
C26_FailureChangesNoState ==
  [][(\/ last'.op = "createMessage rejected"
      \/ (last'.op \in InboundEvents /\ userId[last'.conn] = "")) =>
       UNCHANGED <<status, userId, joined, userSessions, socketToUser,
                   typingUsers>>]_vars

\* createMessage has failed for a connected, registered sender that is in a
\* room, while somebody is typing
C26_Witness ==
  /\ last.op = "createMessage rejected"
  /\ status[last.conn] = "open"
  /\ last.conn \in DOMAIN socketToUser
  /\ "r1" \in joined[last.conn]
  /\ \E r \in DOMAIN typingUsers : typingUsers[r] # {}

\* C27: a connection's userId is set at most once, at connect time, and
\* never changes afterwards: no inbound event handler assigns it, and a
\* connection that connected unauthenticated never becomes authenticated.
C27_UserIdSetOnlyAtConnect ==
  [][\A c \in ConnIds :
        userId'[c] # userId[c] =>
          /\ last'.op = "connection"
          /\ last'.conn = c
          /\ status[c] = "new"
          /\ userId[c] = ""]_vars

\* a connection that is not authenticated has sent a message naming an author
C27_Witness ==
  /\ last.op = "sendMessage"
  /\ status[last.conn] = "open"
  /\ userId[last.conn] = ""
  /\ last.dto.authorId # ""

\* C28: a connection that presents no token or no userId at handshake is not
\* registered, is in no personal room and causes no userOnline; a connection
\* that presents both is registered under that userId and joined to its
\* personal room user:<userId>.
C28_RegisteredIffTokenAndUserId ==
  /\ \A c \in ConnIds : status[c] = "open" =>
        LET hs == handshake[c]
        IN  IF hs.token # "" /\ hs.userId # ""
            THEN /\ userId[c] = hs.userId
                 /\ hs.userId \in DOMAIN userSessions
                 /\ c \in userSessions[hs.userId]
                 /\ c \in DOMAIN socketToUser
                 /\ socketToUser[c] = hs.userId
                 /\ ("user:" \o hs.userId) \in joined[c]
            ELSE /\ userId[c] = ""
                 /\ c \notin DOMAIN socketToUser
                 /\ \A u \in DOMAIN userSessions : c \notin userSessions[u]
                 /\ \A u \in Users : ("user:" \o u) \notin joined[c]
  /\ last.op = "connection" =>
        LET hs == handshake[last.conn]
        IN  IF hs.token # "" /\ hs.userId # ""
            THEN /\ Len(emits) = 1
                 /\ emits[1].event = "userOnline"
                 /\ emits[1].userId = hs.userId
            ELSE emits = <<>>

\* a socket has connected with a userId but no token, next to a registered one
C28_Witness ==
  /\ last.op = "connection"
  /\ handshake[last.conn].token = ""
  /\ handshake[last.conn].userId # ""
  /\ \E d \in ConnIds \ {last.conn} : d \in DOMAIN socketToUser

\* C29: an inbound event whose payload does not match its schema (joinRoom
\* or leaveRoom without a roomId) is rejected before dispatch with an error
\* event to the sender only: it changes no room membership or typing state
\* and emits nothing to other connections.  Stated for authenticated
\* senders; for the others see C7.
C29_MalformedPayloadIsRejected ==
  [][(/\ last'.op \in {"joinRoom", "leaveRoom"}
      /\ last'.roomId = ""
      /\ userId[last'.conn] # "") =>
       /\ Len(emits') = 1
       /\ emits'[1].event = "error"
       /\ emits'[1].to = {last'.conn}
       /\ UNCHANGED <<joined, typingUsers>>]_vars

\* C30: updateMessage and deleteMessage call the gateway's
\* broadcastMessageUpdate / broadcastMessageDelete only after the mutation
\* has been saved, exactly once for every successful mutation, and never
\* when the mutation is rejected (not found, deleted, not the author).
C30_BroadcastOncePerSavedMutation ==
  LET bc == {i \in DOMAIN calls :
               calls[i].op \in {"broadcastMessageUpdate", "broadcastMessageDelete"}}
  IN  /\ last.op \in {"updateMessage", "deleteMessage"} =>
            /\ Cardinality(bc) = 1
            /\ \A i \in bc :
                  /\ calls[i].op = (IF last.op = "updateMessage"
                                    THEN "broadcastMessageUpdate"
                                    ELSE "broadcastMessageDelete")
                  /\ \E j \in 1..(i - 1) :
                        /\ calls[j].op = "save"
                        /\ calls[j].messageId = calls[i].messageId
      /\ last.op \in {"updateMessage rejected", "deleteMessage rejected"} => bc = {}

\* C31: each call of broadcastMessageUpdate / broadcastMessageDelete emits
\* exactly one messageUpdated / messageDeleted event, carrying the given
\* messageId and authorId, to every live connection, and changes no
\* registry, room or typing state.
C31_BroadcastIsGlobalAndPure ==
  [][/\ \A id \in 1..MaxMessages, t \in UpdatedContents, u \in Users :
          BroadcastMessageUpdate(id, t, u) =>
            /\ Len(emits') = 1
            /\ emits'[1].event = "messageUpdated"
            /\ emits'[1].messageId = id
            /\ emits'[1].userId = u
            /\ emits'[1].message = t
            /\ emits'[1].to = {d \in ConnIds : status[d] = "open"}
            /\ UNCHANGED <<status, userId, joined, userSessions, socketToUser,
                           typingUsers>>
     /\ \A id \in 1..MaxMessages, u \in Users :
          BroadcastMessageDelete(id, u) =>
            /\ Len(emits') = 1
            /\ emits'[1].event = "messageDeleted"
            /\ emits'[1].messageId = id
            /\ emits'[1].userId = u
            /\ emits'[1].to = {d \in ConnIds : status[d] = "open"}
            /\ UNCHANGED <<status, userId, joined, userSessions, socketToUser,
                           typingUsers>>]_vars

\* an update was broadcast while a registered socket of somebody else than
\* the author and a socket without userId are connected
C31_Witness ==
  /\ last.op = "broadcastMessageUpdate"
  /\ Len(emits) = 1
  /\ \E d \in emits[1].to : userId[d] = ""
  /\ \E d \in emits[1].to : userId[d] # "" /\ userId[d] # emits[1].userId

\* C32: a typing event with roomId omitted is applied to room "general":
\* the typing set that is updated and the room that is notified are those
\* of "general", and no other room's typing set changes.
C32_TypingDefaultsToGeneral ==
  [][(last'.op = "typing" /\ last'.roomId = "" /\ userId[last'.conn] # "") =>
       LET c == last'.conn
           u == userId[c]
       IN  /\ "general" \in DOMAIN typingUsers'
           /\ u \in typingUsers'["general"] <=> last'.isTyping
           /\ DOMAIN typingUsers' = DOMAIN typingUsers \cup {"general"}
           /\ \A r \in DOMAIN typingUsers \ {"general"} :
                 typingUsers'[r] = typingUsers[r]
           /\ Len(emits') = 1
           /\ emits'[1].roomId = "general"
           /\ emits'[1].to = {d \in ConnIds \ {c} : "general" \in joined[d]}]_vars

\* a user typing in r1 has started typing without roomId, heard in "general"
C32_Witness ==
  /\ last.op = "typing"
  /\ last.roomId = ""
  /\ last.isTyping
  /\ "r1" \in DOMAIN typingUsers
  /\ userId[last.conn] \in typingUsers["r1"]
  /\ Len(emits) = 1
  /\ emits[1].to # {}

\* C33: on disconnect of a user's last connection while the user is typing,
\* the typing state is cleared with its userStoppedTyping notices first and
\* the global userOffline comes last: no userStoppedTyping{u} is emitted
\* after userOffline{u}.
C33_OfflineComesLast ==
  last.op = "disconnect" =>
    \A i \in EventsNamed(emits, "userOffline") :
       \A j \in EventsNamed(emits, "userStoppedTyping") :
          emits[j].userId = emits[i].userId => j < i

\* C34: with two connections c1 and c2 of one user u both joined to room r,
\* a typing entry for u in r started through c2 survives c1 leaving r and
\* c1 disconnecting: u stays in typingUsers[r] and no userStoppedTyping{u}
\* goes to r.
C34_TypingSurvivesOtherConnection ==
  [][\A c1, c2 \in ConnIds, r \in ClientRooms :
       (/\ c1 # c2
        /\ status[c1] = "open" /\ status[c2] = "open"
        /\ userId[c2] # "" /\ userId[c1] = userId[c2]
        /\ r \in joined[c1] /\ r \in joined[c2]
        /\ last.op = "typing" /\ last.conn = c2 /\ last.isTyping
        /\ (IF last.roomId = "" THEN "general" ELSE last.roomId) = r
        /\ \/ last'.op = "leaveRoom" /\ last'.conn = c1 /\ last'.roomId = r
           \/ last'.op = "disconnect" /\ last'.conn = c1)
       => /\ r \in DOMAIN typingUsers'
          /\ userId[c2] \in typingUsers'[r]
          /\ \A k \in EventsNamed(emits', "userStoppedTyping") :
                ~(emits'[k].userId = userId[c2] /\ emits'[k].roomId = r)]_vars

\* C35: messageReply is delivered only to connections registered to the
\* parent message's author, and to each of them at most once, whatever room
\* names other connections have joined.
C35_ReplyOnlyToParentAuthor ==
  last.op = "getMessageById resolved" =>
    LET reply == messages[Len(messages)]
        B == messages[reply.parentMessageId].authorId
        mr == EventsNamed(emits, "messageReply")
    IN  \A d \in ConnIds :
           LET n == Cardinality({i \in mr : d \in emits[i].to})
           IN  /\ n <= 1
               /\ n = 1 => (d \in DOMAIN socketToUser /\ socketToUser[d] = B)

\* C36: presence events and the online list agree over time: a
\* getOnlineUsers answered after userOffline{u} and before the next
\* userOnline{u} never lists u, and one answered after userOnline{u} and
\* before the next userOffline{u} always lists u.  Stated step by step: a
\* step that emits userOnline{u} ends with u listed, a step that emits
\* userOffline{u} ends with u not listed, u enters or leaves the list only
\* in a step that emits the matching event, and getOnlineUsers answers with
\* that list.
C36_PresenceEventsAgreeWithOnlineList ==
  [][\A u \in Users :
       LET wentOnline == \E k \in EventsNamed(emits', "userOnline") :
                            emits'[k].userId = u
           wentOffline == \E k \in EventsNamed(emits', "userOffline") :
                             emits'[k].userId = u
           listedBefore == u \in DOMAIN userSessions
           listedAfter == u \in DOMAIN userSessions'
       IN  /\ wentOnline => listedAfter
           /\ wentOffline => ~listedAfter
           /\ (~listedBefore /\ listedAfter) => wentOnline
           /\ (listedBefore /\ ~listedAfter) => wentOffline
           /\ last'.op = "getOnlineUsers" =>
                 /\ Len(emits') = 1
                 /\ u \in emits'[1].users <=> listedAfter]_vars

\* an online list was answered that names a user who is online and leaves
\* out a user who was online and has gone offline
C36_Witness ==
  /\ last.op = "getOnlineUsers"
  /\ Len(emits) = 1
  /\ emits[1].users # {}
  /\ \E u \in Users \ emits[1].users :
        \E d \in ConnIds : status[d] = "closed" /\ userId[d] = u

\* C37: when a connection disconnects while its sendMessage is awaiting
\* createMessage, the teardown completes normally (the socket leaves the
\* registry, and with the user's last connection the user goes offline and
\* stops typing), and the later completion broadcasts newMessage to the
\* remaining connections without putting the connection or its user back
\* into userSessions, socketToUser or typingUsers.
C37_CompletionAfterDisconnect ==
  [][LET c == last'.conn
         u == userId[c]
     IN  /\ (/\ last'.op = "disconnect"
              /\ u # ""
              /\ \E i \in 1..Len(inflight) :
                    inflight[i].conn = c /\ inflight[i].await = "createMessage")
             => /\ status'[c] = "closed"
                /\ c \notin DOMAIN socketToUser'
                /\ \A v \in DOMAIN userSessions' : c \notin userSessions'[v]
                /\ (\A d \in ConnIds \ {c} : ~(status[d] = "open" /\ userId[d] = u))
                     => /\ u \notin DOMAIN userSessions'
                        /\ \E k \in EventsNamed(emits', "userOffline") :
                              emits'[k].userId = u
                        /\ \A r \in DOMAIN typingUsers' : u \notin typingUsers'[r]
         /\ (last'.op = "createMessage resolved" /\ status[c] = "closed")
             => /\ UNCHANGED <<status, joined, userSessions, socketToUser,
                               typingUsers>>
                /\ Len(emits') = 1
                /\ emits'[1].event = "newMessage"
                /\ emits'[1].to = {d \in ConnIds : status[d] = "open"}]_vars

\* a message of a sender who went offline during the await was broadcast
\* to somebody else
C37_Witness ==
  /\ last.op = "createMessage resolved"
  /\ status[last.conn] = "closed"
  /\ userId[last.conn] \notin DOMAIN userSessions
  /\ Len(emits) = 1
  /\ emits[1].to # {}

\* C38: joinRoom, leaveRoom, typing, sendMessage (with its resumptions) and
\* disconnect by a connection of user u never add or remove any other
\* user's entry in typingUsers or userSessions.
C38_OtherUsersEntriesUntouched ==
  [][last'.op \in {"joinRoom", "leaveRoom", "typing", "sendMessage", "disconnect",
                   "createMessage resolved", "createMessage rejected",
                   "getMessageById resolved", "getMessageById rejected"} =>
       \A v \in Users \ {userId[last'.conn]} :
          /\ v \in DOMAIN userSessions <=> v \in DOMAIN userSessions'
          /\ v \in DOMAIN userSessions => userSessions'[v] = userSessions[v]
          /\ \A r \in DOMAIN typingUsers \cup DOMAIN typingUsers' :
                (r \in DOMAIN typingUsers /\ v \in typingUsers[r])
                  <=> (r \in DOMAIN typingUsers' /\ v \in typingUsers'[r])]_vars

\* a typing user left a room in which another user is typing and goes on
\* typing
C38_Witness ==
  /\ last.op = "leaveRoom"
  /\ userId[last.conn] # ""
  /\ EventsNamed(emits, "userStoppedTyping") # {}
  /\ last.roomId \in DOMAIN typingUsers
  /\ \E v \in Users \ {userId[last.conn]} :
        /\ v \in typingUsers[last.roomId]
        /\ v \in DOMAIN userSessions

=============================================================================
